---- MODULE Spec2Model ----
(***************************************************************************)
(* watch-picker (src/app.py): the recommendation pipeline run by the       *)
(* "Recommend" button -- search the liked titles, fetch their              *)
(* recommendations, fetch the discovery list, build and merge the          *)
(* candidates, filter them on availability and rating, rank them.          *)
(*                                                                         *)
(* Numbers.  Ratings and scores are Python floats with at most two         *)
(* decimals in every input used here; they are kept as integers in         *)
(* hundredths (7.8 is 780, the like bonus 1.25 is 125).                    *)
(* Optional values.  Python's None is the empty tuple, a present value v   *)
(* is the one-element tuple <<v>>.                                         *)
(* Text that the code parses (the rating string, the release date) is a    *)
(* sequence of one-character strings; text that is only passed through     *)
(* is a TLA+ string.                                                       *)
(***************************************************************************)
EXTENDS Integers, Sequences, FiniteSets, TLC

VARIABLES
    cfg,             \* the keys (lines 13-14) and the widget values (308-327)
    pc,              \* position in the script
    likes_left,      \* entries of like_titles the search loop has not visited
    liked_tmdb_ids,  \* line 356
    li,              \* index of the recommendations loop (line 362)
    rec_pool,        \* line 352: the dict, as its values in insertion order
    fi,              \* index of the filter loop over rec_pool.values() (380)
    filtered,        \* line 379
    top,             \* line 392
    ui,              \* what the run showed: st.warning / st.success / st.info
    err,             \* the exception that ended the run, and the call it left
    sent,            \* whether any HTTP request has been sent
    ev,              \* what the last step did (history)
    call,            \* argument and result of a function applied on its own
    src,             \* per pooled id, the like_bonus its stored record was built with (history)
    given,           \* the input of an operation run on its own (SpecMerge: the
                     \* candidates to insert; SpecRank: the retained list)
    done             \* SpecMerge: the indices of given inserted so far, in order

vars == <<cfg, pc, likes_left, liked_tmdb_ids, li, rec_pool, fi, filtered,
          top, ui, err, sent, ev, call, src, given, done>>

-----------------------------------------------------------------------------
(* Bounds of the model *)

MaxId == 2        \* catalog identifiers are 1..MaxId
MaxLikes == 1     \* entries of like_titles
MaxItems == 3     \* SpecMerge: size of the multiset inserted
MaxRank == 3      \* SpecRank: candidates handed to the ranker
MaxN == 2         \* SpecRank: requested counts 1..MaxN

(* Program constants, in hundredths *)

LIKE_BONUS == 125
QUALITY_BONUS == 25
N_RESULTS_MIN == 5
HTTP_OK == 200

TMDB_IMG == "https://image.tmdb.org/t/p/w342"

-----------------------------------------------------------------------------
(* Optional values and small helpers *)

None == <<>>
Some(v) == <<v>>
Min(a, b) == IF a < b THEN a ELSE b

NoErr == [exc |-> "", at |-> ""]

-----------------------------------------------------------------------------
(* Text the code parses *)

DigitChars == <<"0", "1", "2", "3", "4", "5", "6", "7", "8", "9">>
IsDigit(c) == \E i \in 1..10 : DigitChars[i] = c
DigitVal(c) == (CHOOSE i \in 1..10 : DigitChars[i] = c) - 1

\* str.isdigit(): every character a digit, and at least one character
isdigit(s) == Len(s) > 0 /\ \A i \in 1..Len(s) : IsDigit(s[i])

\* int(s) of a digit string
RECURSIVE int(_)
int(s) == IF Len(s) = 0 THEN 0
          ELSE 10 * int(SubSeq(s, 1, Len(s) - 1)) + DigitVal(s[Len(s)])

\* s[:n]
Prefix(s, n) == SubSeq(s, 1, Min(n, Len(s)))

\* str.strip()
RECURSIVE lstrip(_)
lstrip(s) == IF Len(s) > 0 /\ s[1] = " " THEN lstrip(Tail(s)) ELSE s
RECURSIVE rstrip(_)
rstrip(s) == IF Len(s) > 0 /\ s[Len(s)] = " "
             THEN rstrip(SubSeq(s, 1, Len(s) - 1)) ELSE s
strip(s) == rstrip(lstrip(s))

\* float(s) for the decimal notations d, d.d, d.dd, .d, d. (no sign, no
\* exponent, no inf/nan: none occurs in the inputs of this model).  The
\* result is Some(hundredths); None stands for ValueError.
DotAt(s) == {i \in 1..Len(s) : s[i] = "."}
float(s) ==
    IF DotAt(s) = {}
    THEN IF isdigit(s) THEN Some(100 * int(s)) ELSE None
    ELSE LET d == CHOOSE i \in DotAt(s) : \A j \in DotAt(s) : i <= j
             ip == SubSeq(s, 1, d - 1)
             fp == SubSeq(s, d + 1, Len(s))
             okI == Len(ip) = 0 \/ isdigit(ip)
             okF == Len(fp) = 0 \/ (isdigit(fp) /\ Len(fp) <= 2)
         IN  IF okI /\ okF /\ Len(ip) + Len(fp) > 0
             THEN Some(100 * int(ip)
                       + (IF Len(fp) = 1 THEN 10 * int(fp) ELSE int(fp)))
             ELSE None

NA == <<"N", "/", "A">>

\* safe_float, lines 112-119.  x is an optional string.
safe_float(x) ==
    LET s == strip(IF x = None THEN <<>> ELSE x[1])
    IN  IF Len(s) = 0 \/ s = NA THEN None
        ELSE float(s)

-----------------------------------------------------------------------------
(* The HTTP clients.  A response is what the upstream gives to one          *)
(* requests.get: [net, status, json]; net = "timeout" stands for every      *)
(* exception requests.get itself raises (timeout = 20).  A call's result    *)
(* is [exc, at, sent, val]: the exception it leaves with ("" for none),     *)
(* the call it came from, whether a request went out, and the value.        *)
(* st.cache_data is not modelled: a cache hit is a successful response.     *)

Ok(v, s) == [exc |-> "", at |-> "", sent |-> s, val |-> v]
Raise(e, a, s) == [exc |-> e, at |-> a, sent |-> s, val |-> None]

\* requests.Response.raise_for_status(): 4xx and 5xx raise HTTPError
RaisesForStatus(status) == status >= 400

\* tmdb_get without the key check: the request goes out regardless
tmdb_get_NoKeyCheck(tmdb_key, at, resp) ==
    IF resp.net # "ok" THEN Raise("Timeout", at, TRUE)
    ELSE IF RaisesForStatus(resp.status) THEN Raise("HTTPError", at, TRUE)
    ELSE Ok(resp.json, TRUE)

\* tmdb_get, lines 52-59.  `at` names the caller, for the record only.
tmdb_get(tmdb_key, at, resp) ==
    IF ~tmdb_key THEN Raise("RuntimeError", at, FALSE)
    ELSE IF resp.net # "ok" THEN Raise("Timeout", at, TRUE)
    ELSE IF RaisesForStatus(resp.status) THEN Raise("HTTPError", at, TRUE)
    ELSE Ok(resp.json, TRUE)

\* data.get("results", [])
Results(data) == IF data.results = None THEN <<>> ELSE data.results[1]

\* tmdb_search_movie, lines 63-66
tmdb_search_movie(tmdb_key, resp) ==
    LET g == tmdb_get(tmdb_key, "search", resp)
    IN  IF g.exc # "" THEN g
        ELSE LET results == Results(g.val)
             IN  Ok(IF Len(results) > 0 THEN Some(results[1]) ELSE None, g.sent)

\* tmdb_movie_external_ids, lines 70-71
tmdb_movie_external_ids(tmdb_key, resp) == tmdb_get(tmdb_key, "external_ids", resp)

\* tmdb_movie_watch_providers, lines 75-76
tmdb_movie_watch_providers(tmdb_key, resp) == tmdb_get(tmdb_key, "watch", resp)

\* the page loop of lines 82-84 and 96-108: one tmdb_get per page, the
\* first exception leaves the loop, the results are concatenated
RECURSIVE tmdb_pages(_, _, _, _, _)
tmdb_pages(tmdb_key, at, resps, out, anySent) ==
    IF Len(resps) = 0 THEN Ok(out, anySent)
    ELSE LET g == tmdb_get(tmdb_key, at, Head(resps))
         IN  IF g.exc # "" THEN Raise(g.exc, at, anySent \/ g.sent)
             ELSE tmdb_pages(tmdb_key, at, Tail(resps),
                             out \o Results(g.val), TRUE)

\* tmdb_recommendations, lines 80-85; resps holds one response per page
tmdb_recommendations(tmdb_key, resps) == tmdb_pages(tmdb_key, "recs", resps, <<>>, FALSE)

\* tmdb_discover_movies, lines 89-109; resps holds one response per page
tmdb_discover_movies(tmdb_key, resps) == tmdb_pages(tmdb_key, "discover", resps, <<>>, FALSE)

\* omdb_lookup, lines 123-136.  The empty dict is None.
omdb_lookup(omdb_key, resp) ==
    IF ~omdb_key THEN Ok(None, FALSE)
    ELSE IF resp.net # "ok" THEN Raise("Timeout", "omdb", TRUE)
    ELSE IF resp.status # HTTP_OK THEN Ok(None, TRUE)
    ELSE IF resp.json.Response # "True" THEN Ok(None, TRUE)
    ELSE Ok(Some(resp.json), TRUE)

-----------------------------------------------------------------------------
(* Candidate builder *)

Rec(tmdb_id, title, year, overview, poster_url, tmdb_vote, imdb_rating, score) ==
    [tmdb_id |-> tmdb_id, title |-> title, year |-> year,
     overview |-> overview, poster_url |-> poster_url,
     tmdb_vote |-> tmdb_vote, imdb_rating |-> imdb_rating, score |-> score]

\* lines 265-271: the secondary rating, [exc, at, sent, val]
Enrich(tmdb_id, tmdb_key, omdb_key, ext_resp, om_resp) ==
    IF ~omdb_key THEN Ok(None, FALSE)
    ELSE LET ext == tmdb_movie_external_ids(tmdb_key, ext_resp)
         IN  IF ext.exc # "" THEN ext
             ELSE IF ext.val.imdb_id = None \/ ext.val.imdb_id = Some("")
             THEN Ok(None, ext.sent)
             ELSE LET om == omdb_lookup(omdb_key, om_resp)
                  IN  IF om.exc # "" THEN om
                      ELSE Ok(safe_float(IF om.val = None THEN None
                                         ELSE om.val[1].imdbRating), TRUE)

\* Score with the bonus only for a rating of 7.0 or more
Score_BonusForGoodRating(tmdb_vote, like_bonus, imdb_rating) ==
    LET base == IF tmdb_vote = None THEN 0 ELSE tmdb_vote[1]
        quality == IF imdb_rating # None /\ imdb_rating[1] >= 700
                   THEN QUALITY_BONUS ELSE 0
    IN  base + like_bonus + quality

\* Score without the like bonus
Score_NoLikeBonus(tmdb_vote, like_bonus, imdb_rating) ==
    LET base == IF tmdb_vote = None THEN 0 ELSE tmdb_vote[1]
        quality == IF imdb_rating # None THEN QUALITY_BONUS ELSE 0
    IN  base + quality

\* lines 273-275
Score(tmdb_vote, like_bonus, imdb_rating) ==
    LET base == IF tmdb_vote = None THEN 0 ELSE tmdb_vote[1]
        quality == IF imdb_rating # None THEN QUALITY_BONUS ELSE 0
    IN  base + like_bonus + quality

\* Usable without the title check
Usable_IdOnly(tmdb_id, title) == tmdb_id # None /\ tmdb_id[1] # 0

\* line 255, negated: tmdb_id and title are both truthy
Usable(tmdb_id, title) ==
    /\ tmdb_id # None /\ tmdb_id[1] # 0
    /\ title # ""

\* build_rec, lines 252-286: [exc, at, sent, val], val = None or Some(Rec)
build_rec(movie, like_bonus, tmdb_key, omdb_key, ext_resp, om_resp) ==
    LET title == IF movie.title = None THEN "" ELSE movie.title[1]
    IN
    IF ~Usable(movie.id, title) THEN Ok(None, FALSE)
    ELSE
    LET tmdb_id == movie.id[1]
        release_date == IF movie.release_date = None THEN <<>>
                        ELSE movie.release_date[1]
        year == IF isdigit(Prefix(release_date, 4))
                THEN Some(int(Prefix(release_date, 4))) ELSE None
        overview == IF movie.overview = None THEN "" ELSE movie.overview[1]
        poster_url == IF movie.poster_path # None /\ movie.poster_path[1] # ""
                      THEN Some(TMDB_IMG \o movie.poster_path[1]) ELSE None
        tmdb_vote == movie.vote_average
        en == Enrich(tmdb_id, tmdb_key, omdb_key, ext_resp, om_resp)
    IN  IF en.exc # "" THEN en
        ELSE Ok(Some(Rec(tmdb_id, title, year, overview, poster_url, tmdb_vote,
                         en.val, Score(tmdb_vote, like_bonus, en.val))),
                en.sent)

-----------------------------------------------------------------------------
(* Merge/dedup pool.  rec_pool is the dict's values in insertion order;    *)
(* assigning to a key the dict already has keeps the key's position.       *)

PoolIds(pool) == {pool[i].tmdb_id : i \in 1..Len(pool)}
PoolAt(pool, id) == pool[CHOOSE i \in 1..Len(pool) : pool[i].tmdb_id = id]

\* Merge that also replaces on an equal score
Merge_ReplaceOnTie(pool, r) ==
    IF r.tmdb_id \notin PoolIds(pool) THEN Append(pool, r)
    ELSE LET i == CHOOSE j \in 1..Len(pool) : pool[j].tmdb_id = r.tmdb_id
         IN  IF r.score >= pool[i].score THEN [pool EXCEPT ![i] = r] ELSE pool

\* Merge where the last candidate of an id wins
Merge_LastWins(pool, r) ==
    IF r.tmdb_id \notin PoolIds(pool) THEN Append(pool, r)
    ELSE LET i == CHOOSE j \in 1..Len(pool) : pool[j].tmdb_id = r.tmdb_id
         IN  [pool EXCEPT ![i] = r]

\* lines 367-368 and 375-376
Merge(pool, r) ==
    IF r.tmdb_id \notin PoolIds(pool) THEN Append(pool, r)
    ELSE LET i == CHOOSE j \in 1..Len(pool) : pool[j].tmdb_id = r.tmdb_id
         IN  IF r.score > pool[i].score THEN [pool EXCEPT ![i] = r] ELSE pool

-----------------------------------------------------------------------------
(* Availability and rating filter *)

\* extract_provider_ids_for_region, lines 143-146.  watch_data.results is
\* an optional function from region codes to optional region data
\* [flatrate: optional sequence of [provider_id: optional id]].
extract_provider_ids_for_region(watch_data, region) ==
    LET results == watch_data.results
        region_data == IF results = None THEN None
                       ELSE IF region \in DOMAIN results[1]
                       THEN results[1][region] ELSE None
        flatrate == IF region_data = None THEN <<>>
                    ELSE IF region_data[1].flatrate = None THEN <<>>
                    ELSE region_data[1].flatrate[1]
    IN  {flatrate[i].provider_id[1] :
            i \in {j \in 1..Len(flatrate) : flatrate[j].provider_id # None}}

\* movie_available_on_selected_services without the shortcut of line 150
movie_available_NoShortcut(tmdb_key, region, selected_provider_ids, watch_resp) ==
    LET watch == tmdb_movie_watch_providers(tmdb_key, watch_resp)
    IN  IF watch.exc # ""
        THEN [exc |-> watch.exc, at |-> watch.at, sent |-> watch.sent,
              val |-> FALSE, fetched |-> watch.sent, watch |-> None]
        ELSE LET ids_here == extract_provider_ids_for_region(watch.val, region)
             IN  [exc |-> "", at |-> "", sent |-> TRUE,
                  val |-> Cardinality(ids_here \cap selected_provider_ids) > 0,
                  fetched |-> TRUE, watch |-> Some(watch.val)]

\* movie_available_on_selected_services, lines 149-154:
\* [exc, at, sent, val], and for the record: whether the watch providers
\* were fetched, and what came back
movie_available_on_selected_services(tmdb_key, region, selected_provider_ids, watch_resp) ==
    IF selected_provider_ids = {}
    THEN [exc |-> "", at |-> "", sent |-> FALSE, val |-> TRUE,
          fetched |-> FALSE, watch |-> None]
    ELSE LET watch == tmdb_movie_watch_providers(tmdb_key, watch_resp)
         IN  IF watch.exc # ""
             THEN [exc |-> watch.exc, at |-> watch.at, sent |-> watch.sent,
                   val |-> FALSE, fetched |-> watch.sent, watch |-> None]
             ELSE LET ids_here == extract_provider_ids_for_region(watch.val, region)
                  IN  [exc |-> "", at |-> "", sent |-> TRUE,
                       val |-> Cardinality(ids_here \cap selected_provider_ids) > 0,
                       fetched |-> TRUE, watch |-> Some(watch.val)]

\* RatingRejects with an absent rating counted as 0
RatingRejects_AbsentAsZero(omdb_key, r, imdb_min) ==
    omdb_key /\ (IF r.imdb_rating = None THEN 0 ELSE r.imdb_rating[1]) < imdb_min

\* line 386: the candidate is rejected on its IMDb rating
RatingRejects(omdb_key, r, imdb_min) ==
    omdb_key /\ r.imdb_rating # None /\ r.imdb_rating[1] < imdb_min

-----------------------------------------------------------------------------
(* Ranker *)

\* InsertDesc that puts x in front of the elements with an equal score
RECURSIVE InsertDesc_Unstable(_, _)
InsertDesc_Unstable(s, x) ==
    IF Len(s) = 0 THEN <<x>>
    ELSE IF Head(s).score > x.score
    THEN <<Head(s)>> \o InsertDesc_Unstable(Tail(s), x)
    ELSE <<x>> \o s

\* list.sort(key=score, reverse=True), line 391: a stable sort, equal
\* scores keep their order.  Insert x behind every element with a score
\* at least x's.
RECURSIVE InsertDesc(_, _)
InsertDesc(s, x) ==
    IF Len(s) = 0 THEN <<x>>
    ELSE IF Head(s).score >= x.score THEN <<Head(s)>> \o InsertDesc(Tail(s), x)
    ELSE <<x>> \o s

\* line 391: the insertions, left to right
RECURSIVE SortByScoreDesc(_)
SortByScoreDesc(s) ==
    IF Len(s) = 0 THEN <<>>
    ELSE InsertDesc(SortByScoreDesc(SubSeq(s, 1, Len(s) - 1)), s[Len(s)])

\* filtered[:n_results], line 392
Slice(s, n) == SubSeq(s, 1, Min(n, Len(s)))

-----------------------------------------------------------------------------
(* What the upstreams may answer, and what the user may have set *)

Chars(a, b, c) == <<a, b, c>>

MovieIds == 1..MaxId

\* raw records of /recommendations and /discover
RawIds == {None, Some(0)} \cup {Some(i) : i \in MovieIds}
RawTitles == {None, Some(""), Some("Heat")}
RawVotes == {Some(600), Some(780)}
HeatDate == <<"1", "9", "9", "5", "-", "1", "2", "-", "1", "5">>

Movie(id, title, vote) ==
    [id |-> id, title |-> title, release_date |-> Some(HeatDate),
     overview |-> None, poster_path |-> Some("/x.jpg"), vote_average |-> vote]

Movies == {Movie(id, t, v) : id \in RawIds, t \in RawTitles, v \in RawVotes}

Resp(net, status, json) == [net |-> net, status |-> status, json |-> json]
Timeout == Resp("timeout", 0, None)
Http500 == Resp("ok", 500, None)

\* /movie/{id}/external_ids
ExtResponses ==
    {Timeout, Http500}
    \cup {Resp("ok", 200, [imdb_id |-> i]) : i \in {None, Some("tt0113277")}}

\* the ratings provider; imdbRating as the text it sends
RatingTexts == {None, Some(NA), Some(Chars("6", ".", "0")),
                Some(<<" ", "7", ".", "5">>), Some(Chars("a", "b", "c"))}
OmResponses ==
    {Timeout, Http500, Resp("ok", 200, [Response |-> "False", imdbRating |-> None])}
    \cup {Resp("ok", 200, [Response |-> "True", imdbRating |-> t]) : t \in RatingTexts}

\* one page of a list endpoint; the records of the list are drawn when the
\* loop over the list reaches them
PageResponses == {Timeout, Http500, Resp("ok", 200, [results |-> Some(<<>>)])}

\* /search/movie
SearchResponses ==
    {Timeout, Http500, Resp("ok", 200, [results |-> None]),
     Resp("ok", 200, [results |-> Some(<<>>)])}
    \cup {Resp("ok", 200, [results |-> Some(<<[id |-> 1], [id |-> 2]>>)])}

\* /movie/{id}/watch/providers
Flat(ids) == [flatrate |-> Some([i \in 1..Len(ids) |-> [provider_id |-> ids[i]]])]
WatchData ==
    {[results |-> None],
     [results |-> Some([r \in {"CA"} |-> Some(Flat(<<Some(8)>>))])],
     [results |-> Some([r \in {"US"} |-> Some([flatrate |-> None])])],
     [results |-> Some([r \in {"US", "CA"} |-> Some(Flat(<<Some(15)>>))])],
     [results |-> Some([r \in {"US"} |-> Some(Flat(<<None, Some(15), Some(9)>>))])]}
WatchResponses == {Timeout, Http500} \cup {Resp("ok", 200, w) : w \in WatchData}

\* PROVIDER_NAME_TO_ID of the selected services (line 350): none, or
\* Netflix and Prime Video (the default of line 303)
Selections == {{}, {8, 9}}

Configs ==
    [tmdb_key : BOOLEAN, omdb_key : BOOLEAN, region : {"US"},
     selected_provider_ids : Selections, imdb_min : {650},
     n_results : {N_RESULTS_MIN}]

\* what one call can come to, over everything the upstreams may answer
BuildOutcomes ==
    [like_bonus \in {0, LIKE_BONUS}, tmdb_key \in BOOLEAN, omdb_key \in BOOLEAN |->
        {build_rec(m, like_bonus, tmdb_key, omdb_key, e, o) :
            m \in Movies, e \in ExtResponses, o \in OmResponses}]
AvailOutcomes ==
    [tmdb_key \in BOOLEAN, region \in {"US"}, sel \in Selections |->
        {movie_available_on_selected_services(tmdb_key, region, sel, w) :
            w \in WatchResponses}]
SearchOutcomes ==
    [tmdb_key \in BOOLEAN |-> {tmdb_search_movie(tmdb_key, r) : r \in SearchResponses}]
RecsOutcomes ==
    [tmdb_key \in BOOLEAN |->
        {tmdb_recommendations(tmdb_key, <<p1, p2>>) :
            p1 \in PageResponses, p2 \in PageResponses}]
DiscoverOutcomes ==
    [tmdb_key \in BOOLEAN |->
        {tmdb_discover_movies(tmdb_key, <<p1, p2, p3>>) :
            p1 \in PageResponses, p2 \in PageResponses, p3 \in PageResponses}]

NoEv == [what |-> "", fetched |-> FALSE, watch |-> None]
Ev(what) == [what |-> what, fetched |-> FALSE, watch |-> None]
NoCall == [fn |-> "", exc |-> "", sent |-> FALSE]

-----------------------------------------------------------------------------
(* The run *)

Init ==
    /\ cfg \in Configs
    /\ pc = "start"
    /\ likes_left \in 0..MaxLikes
    /\ liked_tmdb_ids = <<>>
    /\ li = 1
    /\ rec_pool = <<>>
    /\ fi = 1
    /\ filtered = <<>>
    /\ top = <<>>
    /\ ui = ""
    /\ err = NoErr
    /\ sent = FALSE
    /\ ev = NoEv
    /\ call = NoCall
    /\ src = <<>>
    /\ given = <<>>
    /\ done = <<>>

\* an exception nothing catches ends the script run
Crash(res) ==
    /\ pc' = "crashed"
    /\ err' = [exc |-> res.exc, at |-> res.at]
    /\ ui' = "exception"

\* one operation of the metadata client, called on its own before a run
ClientResults ==
    [tmdb_key \in BOOLEAN |->
        {[fn |-> "tmdb_search_movie", exc |-> r.exc, sent |-> r.sent] :
            r \in SearchOutcomes[tmdb_key]}
        \cup {[fn |-> "tmdb_movie_external_ids", exc |-> r.exc, sent |-> r.sent] :
            r \in {tmdb_movie_external_ids(tmdb_key, x) : x \in ExtResponses}}
        \cup {[fn |-> "tmdb_movie_watch_providers", exc |-> r.exc, sent |-> r.sent] :
            r \in {tmdb_movie_watch_providers(tmdb_key, x) : x \in WatchResponses}}
        \cup {[fn |-> "tmdb_recommendations", exc |-> r.exc, sent |-> r.sent] :
            r \in RecsOutcomes[tmdb_key]}
        \cup {[fn |-> "tmdb_discover_movies", exc |-> r.exc, sent |-> r.sent] :
            r \in DiscoverOutcomes[tmdb_key]}]

ClientCall ==
    /\ pc = "start"
    /\ \E c \in ClientResults[cfg.tmdb_key] : call' = c
    /\ UNCHANGED <<cfg, pc, likes_left, liked_tmdb_ids, li, rec_pool, fi, filtered,
                   top, ui, err, sent, ev, src, given, done>>

\* line 345, go is true: lines 349-356
Go ==
    /\ ev' = NoEv
    /\ pc = "start"
    /\ pc' = "search"
    /\ call' = NoCall
    /\ UNCHANGED <<cfg, likes_left, liked_tmdb_ids, li, rec_pool, fi, filtered,
                   top, ui, err, sent, src, given, done>>

\* line 345, go is false: line 433
Idle ==
    /\ ev' = NoEv
    /\ pc = "start"
    /\ pc' = "done"
    /\ ui' = "info"
    /\ call' = NoCall
    /\ UNCHANGED <<cfg, likes_left, liked_tmdb_ids, li, rec_pool, fi, filtered,
                   top, err, sent, src, given, done>>

\* lines 357-360, one title
SearchNext ==
    /\ ev' = NoEv
    /\ pc = "search" /\ likes_left > 0
    /\ \E hit \in SearchOutcomes[cfg.tmdb_key] :
              /\ sent' = (sent \/ hit.sent)
              /\ IF hit.exc # ""
                 THEN /\ Crash(hit)
                      /\ UNCHANGED <<likes_left, liked_tmdb_ids>>
                 ELSE /\ likes_left' = likes_left - 1
                      /\ liked_tmdb_ids' =
                            IF hit.val # None
                            THEN Append(liked_tmdb_ids, hit.val[1].id)
                            ELSE liked_tmdb_ids
                      /\ UNCHANGED <<pc, err, ui>>
    /\ UNCHANGED <<cfg, li, rec_pool, fi, filtered, top, call, src, given, done>>

\* line 357, like_titles is exhausted
SearchEnd ==
    /\ ev' = NoEv
    /\ pc = "search" /\ likes_left = 0
    /\ pc' = "recs"
    /\ UNCHANGED <<cfg, likes_left, liked_tmdb_ids, li, rec_pool, fi, filtered,
                   top, ui, err, sent, call, src, given, done>>

\* a list endpoint is fetched: resps answers its pages
Fetch(res, next) ==
    /\ ev' = NoEv
    /\ sent' = (sent \/ res.sent)
    /\ IF res.exc # "" THEN Crash(res)
       ELSE /\ pc' = next
            /\ UNCHANGED <<err, ui>>
    /\ UNCHANGED <<cfg, likes_left, liked_tmdb_ids, li, rec_pool, fi, filtered,
                   top, call, src, given, done>>

\* line 363: tmdb_recommendations(mid, pages=2)
RecsFetch ==
    /\ pc = "recs" /\ li <= Len(liked_tmdb_ids)
    /\ \E res \in RecsOutcomes[cfg.tmdb_key] : Fetch(res, "recs_loop")

\* line 362, liked_tmdb_ids is exhausted
RecsEnd ==
    /\ ev' = NoEv
    /\ pc = "recs" /\ li > Len(liked_tmdb_ids)
    /\ pc' = "discover"
    /\ UNCHANGED <<cfg, likes_left, liked_tmdb_ids, li, rec_pool, fi, filtered,
                   top, ui, err, sent, call, src, given, done>>

\* lines 364-368 and 372-376: one record of the list
Item(like_bonus) ==
    \E b \in BuildOutcomes[like_bonus, cfg.tmdb_key, cfg.omdb_key] :
           /\ sent' = (sent \/ b.sent)
           /\ IF b.exc # ""
              THEN /\ Crash(b)
                   /\ ev' = Ev("raised")
                   /\ UNCHANGED <<rec_pool, src>>
              ELSE IF b.val = None
              THEN /\ ev' = Ev("rejected")
                   /\ UNCHANGED <<rec_pool, src, pc, err, ui>>
              ELSE LET r == b.val[1]
                       pool == Merge(rec_pool, r)
                   IN  /\ rec_pool' = pool
                       /\ ev' = Ev(IF Len(pool) > Len(rec_pool) THEN "inserted"
                                   ELSE IF pool # rec_pool THEN "replaced"
                                   ELSE "kept")
                       /\ src' = IF r.tmdb_id \notin PoolIds(rec_pool)
                                 THEN Append(src, like_bonus)
                                 ELSE IF r.score > PoolAt(rec_pool, r.tmdb_id).score
                                 THEN [i \in 1..Len(src) |->
                                         IF rec_pool[i].tmdb_id = r.tmdb_id
                                         THEN like_bonus ELSE src[i]]
                                 ELSE src
                       /\ UNCHANGED <<pc, err, ui>>

RecsItem ==
    /\ pc = "recs_loop"
    /\ Item(LIKE_BONUS)
    /\ UNCHANGED <<cfg, likes_left, liked_tmdb_ids, li, fi, filtered, top, call,
                   given, done>>

\* line 363, the list is exhausted
RecsItemsEnd ==
    /\ ev' = NoEv
    /\ pc = "recs_loop"
    /\ pc' = "recs"
    /\ li' = li + 1
    /\ UNCHANGED <<cfg, likes_left, liked_tmdb_ids, rec_pool, fi, filtered,
                   top, ui, err, sent, call, src, given, done>>

\* line 371: tmdb_discover_movies(..., pages=3)
Discover ==
    /\ pc = "discover"
    /\ \E res \in DiscoverOutcomes[cfg.tmdb_key] : Fetch(res, "disc_loop")

DiscItem ==
    /\ pc = "disc_loop"
    /\ Item(0)
    /\ UNCHANGED <<cfg, likes_left, liked_tmdb_ids, li, fi, filtered, top, call,
                   given, done>>

\* line 371, the list is exhausted; line 379
DiscEnd ==
    /\ ev' = NoEv
    /\ pc = "disc_loop"
    /\ pc' = "filter"
    /\ UNCHANGED <<cfg, likes_left, liked_tmdb_ids, li, rec_pool, fi, filtered,
                   top, ui, err, sent, call, src, given, done>>

\* lines 380-389, one candidate
FilterItem ==
    /\ pc = "filter" /\ fi <= Len(rec_pool)
    /\ \E a \in AvailOutcomes[cfg.tmdb_key, cfg.region, cfg.selected_provider_ids] :
          LET r == rec_pool[fi]
              what == IF a.exc # "" THEN "raised"
                      ELSE IF ~a.val THEN "no_service"
                      ELSE IF RatingRejects(cfg.omdb_key, r, cfg.imdb_min)
                      THEN "low_rating" ELSE "retained"
          IN  /\ sent' = (sent \/ a.sent)
              /\ ev' = [what |-> what, fetched |-> a.fetched, watch |-> a.watch]
              /\ IF a.exc # ""
                 THEN /\ Crash(a)
                      /\ UNCHANGED <<fi, filtered>>
                 ELSE /\ fi' = fi + 1
                      /\ filtered' = IF what = "retained" THEN Append(filtered, r)
                                     ELSE filtered
                      /\ UNCHANGED <<pc, err, ui>>
    /\ UNCHANGED <<cfg, likes_left, liked_tmdb_ids, li, rec_pool, top, call, src,
                   given, done>>

\* lines 391-392
Rank ==
    /\ ev' = NoEv
    /\ pc = "filter" /\ fi > Len(rec_pool)
    /\ filtered' = SortByScoreDesc(filtered)
    /\ top' = Slice(SortByScoreDesc(filtered), cfg.n_results)
    /\ pc' = "render"
    /\ UNCHANGED <<cfg, likes_left, liked_tmdb_ids, li, rec_pool, fi, ui, err,
                   sent, call, src, given, done>>

\* lines 394-431
Render ==
    /\ ev' = NoEv
    /\ pc = "render"
    /\ ui' = IF Len(top) = 0 THEN "warning" ELSE "success"
    /\ pc' = "done"
    /\ UNCHANGED <<cfg, likes_left, liked_tmdb_ids, li, rec_pool, fi, filtered,
                   top, err, sent, call, src, given, done>>

Next ==
    \/ ClientCall
    \/ Go \/ Idle
    \/ SearchNext \/ SearchEnd
    \/ RecsFetch \/ RecsEnd \/ RecsItem \/ RecsItemsEnd
    \/ Discover \/ DiscItem \/ DiscEnd
    \/ FilterItem \/ Rank \/ Render

Spec == Init /\ [][Next]_vars

-----------------------------------------------------------------------------
(* build_rec on its own: every input, one application *)

BuildIds == {None, Some(0), Some(1)}
BuildVotes == {None, Some(0), Some(600), Some(780)}
BuildDates == {None, Some(HeatDate), Some(Chars("1", "9", "-"))}
BuildPosters == {None, Some("/x.jpg")}
BuildMovies ==
    {[id |-> id, title |-> t, release_date |-> d, overview |-> None,
      poster_path |-> p, vote_average |-> v] :
        id \in BuildIds, t \in RawTitles, d \in BuildDates, p \in BuildPosters,
        v \in BuildVotes}

Blank ==
    /\ likes_left = 0
    /\ liked_tmdb_ids = <<>>
    /\ li = 1
    /\ rec_pool = <<>>
    /\ fi = 1
    /\ filtered = <<>>
    /\ top = <<>>
    /\ ui = ""
    /\ err = NoErr
    /\ sent = FALSE
    /\ ev = NoEv
    /\ src = <<>>
    /\ done = <<>>

InitBuild ==
    /\ cfg \in Configs
    /\ pc = "build"
    /\ Blank
    /\ given \in [movie : BuildMovies, like_bonus : {0, LIKE_BONUS},
                  ext_resp : ExtResponses, om_resp : OmResponses]
    /\ call = NoCall

Build ==
    /\ pc = "build"
    /\ pc' = "built"
    /\ call' = build_rec(given.movie, given.like_bonus, cfg.tmdb_key, cfg.omdb_key,
                         given.ext_resp, given.om_resp)
    /\ UNCHANGED <<cfg, likes_left, liked_tmdb_ids, li, rec_pool, fi, filtered,
                   top, ui, err, sent, ev, src, given, done>>

SpecBuild == InitBuild /\ [][Build]_vars

-----------------------------------------------------------------------------
(* The merge on its own: a multiset of built candidates, inserted in any   *)
(* order                                                                   *)

\* candidates of the two sources; 6.0 + 1.25 and 7.25 + 0 tie
MergeInputs ==
    {<<Movie(Some(i), Some("Heat"), Some(v[1])), v[2]>> :
        i \in MovieIds, v \in {<<600, LIKE_BONUS>>, <<725, 0>>, <<780, 0>>}}
MergeCands ==
    {build_rec(x[1], x[2], TRUE, FALSE, Timeout, Timeout).val[1] : x \in MergeInputs}

InitMerge ==
    /\ cfg \in {c \in Configs : c.tmdb_key /\ ~c.omdb_key /\ c.selected_provider_ids = {}}
    /\ pc = "merge"
    /\ Blank
    /\ given \in UNION {[1..n -> MergeCands] : n \in 0..MaxItems}
    /\ call = NoCall

Range(f) == {f[i] : i \in DOMAIN f}

\* lines 367-368, for any candidate not yet inserted
Insert ==
    /\ pc = "merge"
    /\ \E i \in (1..Len(given)) \ Range(done) :
          /\ rec_pool' = Merge(rec_pool, given[i])
          /\ done' = Append(done, i)
    /\ UNCHANGED <<cfg, pc, likes_left, liked_tmdb_ids, li, fi, filtered,
                   top, ui, err, sent, ev, call, src, given>>

SpecMerge == InitMerge /\ [][Insert]_vars

-----------------------------------------------------------------------------
(* The ranker on its own: any pool, any retained part of it, any count *)

RankCands(i) ==
    {build_rec(Movie(Some(i), Some("Heat"), Some(v[1])), v[2],
               TRUE, FALSE, Timeout, Timeout).val[1] :
        v \in {<<600, LIKE_BONUS>>, <<725, 0>>, <<780, 0>>}}

\* the pools of n candidates with the ids 1..n, in any order
RankPools ==
    UNION {{p \in [1..n -> UNION {RankCands(i) : i \in 1..n}] :
                \A i, j \in 1..n : i # j => p[i].tmdb_id # p[j].tmdb_id} :
           n \in 0..MaxRank}

\* the elements of s at the positions in keep, in s's order
RECURSIVE Pick(_, _)
Pick(s, keep) ==
    IF Len(s) = 0 THEN <<>>
    ELSE Pick(SubSeq(s, 1, Len(s) - 1), keep)
         \o (IF Len(s) \in keep THEN <<s[Len(s)]>> ELSE <<>>)

InitRank ==
    /\ cfg \in {[c EXCEPT !.n_results = n] :
                  c \in {c \in Configs : c.tmdb_key /\ ~c.omdb_key
                                          /\ c.selected_provider_ids = {}},
                  n \in 1..MaxN}
    /\ pc = "filter"
    /\ likes_left = 0
    /\ liked_tmdb_ids = <<>>
    /\ li = 1
    /\ rec_pool \in RankPools
    /\ fi = Len(rec_pool) + 1
    /\ \E keep \in SUBSET (1..Len(rec_pool)) : filtered = Pick(rec_pool, keep)
    /\ given = filtered
    /\ top = <<>>
    /\ ui = ""
    /\ err = NoErr
    /\ sent = FALSE
    /\ ev = NoEv
    /\ call = NoCall
    /\ src = [i \in 1..Len(rec_pool) |-> 0]
    /\ done = <<>>

SpecRank == InitRank /\ [][Rank \/ Render]_vars

-----------------------------------------------------------------------------
(* Claims *)

Max(S) == CHOOSE x \in S : \A y \in S : y <= x
Base(r) == IF r.tmdb_vote = None THEN 0 ELSE r.tmdb_vote[1]
Quality(r) == IF r.imdb_rating # None THEN QUALITY_BONUS ELSE 0

(* ---- SpecMerge ---- *)

RECURSIVE MergeAll(_, _)
MergeAll(pool, s) ==
    IF Len(s) = 0 THEN pool ELSE MergeAll(Merge(pool, Head(s)), Tail(s))

Complete == pc = "merge" /\ Len(done) = Len(given)
Inserted == {given[i] : i \in Range(done)}
InsertedWith(id) == {c \in Inserted : c.tmdb_id = id}
BestScore(id) == Max({c.score : c \in InsertedWith(id)})
\* the first inserted of the candidates of id with the best score
FirstBest(id) ==
    LET k == CHOOSE a \in 1..Len(done) :
                /\ given[done[a]].tmdb_id = id
                /\ given[done[a]].score = BestScore(id)
                /\ \A b \in 1..(a - 1) :
                      ~(given[done[b]].tmdb_id = id
                        /\ given[done[b]].score = BestScore(id))
    IN  given[done[k]]

\* C1 as stated: whatever the insertion order, the pool (id -> full record)
\* is the pool the order 1, 2, ... gives.
C1_SamePoolInEveryOrder ==
    Complete => Range(rec_pool) = Range(MergeAll(<<>>, given))

\* C1, amended: whatever the insertion order, the pool has one entry per
\* inserted id, with the greatest score inserted for that id, and the record
\* stored is the first inserted of the candidates of that id with that score;
\* so two orders agree on ids and scores, and on the full records unless two
\* different candidates of one id tie for the greatest score.
C1_SameScoresFirstBestKept ==
    Complete =>
        /\ PoolIds(rec_pool) = {c.tmdb_id : c \in Inserted}
        /\ {<<r.tmdb_id, r.score>> : r \in Range(rec_pool)}
             = {<<r.tmdb_id, r.score>> : r \in Range(MergeAll(<<>>, given))}
        /\ \A r \in Range(rec_pool) : r = FirstBest(r.tmdb_id)

\* two orders of one multiset ended in different pools
C1_Witness ==
    /\ Complete
    /\ Len(given) >= 2
    /\ Range(rec_pool) # Range(MergeAll(<<>>, given))

\* C2: the pool holds at most one candidate per id; for every id inserted the
\* stored score is the greatest score inserted with that id; and a stored
\* candidate is replaced only by one with a strictly greater score.
C2_Inv ==
    pc = "merge" =>
        /\ \A i, j \in 1..Len(rec_pool) :
              rec_pool[i].tmdb_id = rec_pool[j].tmdb_id => i = j
        /\ PoolIds(rec_pool) = {c.tmdb_id : c \in Inserted}
        /\ \A r \in Range(rec_pool) : r.score = BestScore(r.tmdb_id)
C2_Step ==
    \A i \in 1..Len(rec_pool) :
        /\ i <= Len(rec_pool')
        /\ rec_pool'[i].tmdb_id = rec_pool[i].tmdb_id
        /\ rec_pool'[i] # rec_pool[i] => rec_pool'[i].score > rec_pool[i].score
C2_MaxScorePerId == [](C2_Inv) /\ [][C2_Step]_vars

\* an id was inserted three times: replaced by a greater score, then kept
\* against a smaller one
C2_Witness ==
    /\ pc = "merge"
    /\ \E a, b, c \in 1..Len(done) :
          /\ a < b /\ b < c
          /\ given[done[a]].tmdb_id = given[done[b]].tmdb_id
          /\ given[done[b]].tmdb_id = given[done[c]].tmdb_id
          /\ given[done[a]].score < given[done[b]].score
          /\ given[done[c]].score < given[done[b]].score

(* ---- SpecBuild ---- *)

Built == pc = "built" /\ call.exc = "" /\ call.val # None

\* the ratings provider was asked and gave a number
Resolved ==
    /\ cfg.omdb_key
    /\ given.ext_resp.net = "ok" /\ given.ext_resp.status = 200
    /\ given.ext_resp.json.imdb_id # None
    /\ given.om_resp.net = "ok" /\ given.om_resp.status = 200
    /\ given.om_resp.json.Response = "True"
    /\ given.om_resp.json.imdbRating
          \in {Some(Chars("6", ".", "0")), Some(<<" ", "7", ".", "5">>)}

\* C3: a built candidate's score is vote_average (0 if absent) + likeBonus
\* + 0.25 if a secondary rating was resolved, whatever its value; 7.8 with
\* likeBonus 1.25 and no secondary rating gives 9.05.
C3_ScoreFormula ==
    Built =>
        LET r == call.val[1]
            m == given.movie
        IN  /\ (r.imdb_rating # None) = Resolved
            /\ r.score = (IF m.vote_average = None THEN 0 ELSE m.vote_average[1])
                         + given.like_bonus
                         + (IF Resolved THEN 25 ELSE 0)
            /\ (m.vote_average = Some(780) /\ given.like_bonus = 125 /\ ~Resolved)
                  => r.score = 905

\* a candidate with a resolved rating of 6.0, no vote_average, from a liked title
C3_Witness ==
    /\ Built
    /\ Resolved
    /\ call.val[1].imdb_rating = Some(600)
    /\ given.movie.vote_average = None
    /\ given.like_bonus = LIKE_BONUS
    /\ call.val[1].score = 150

(* ---- Spec ---- *)

\* C4: every candidate in the pool has a usable id and a non-empty title.
C4_PoolHasIdAndTitle ==
    \A i \in 1..Len(rec_pool) :
        /\ rec_pool[i].tmdb_id \in MovieIds
        /\ rec_pool[i].title # ""

\* build_rec rejected a record of the discovery list, after one of a liked
\* title's list; the pool holds candidates
C4_Witness ==
    /\ pc = "disc_loop"
    /\ ev.what = "rejected"
    /\ Len(liked_tmdb_ids) > 0
    /\ Len(rec_pool) > 0

\* C5 as stated: with the ratings key configured, no failure of the
\* secondary-rating lookups ends the run.
C5_EnrichmentFailureDoesNotEndRun ==
    (cfg.omdb_key /\ pc = "crashed") => err.at \notin {"external_ids", "omdb"}

FilterStep == pc = "filter" /\ ev.what \in {"no_service", "low_rating", "retained"}
Checked == rec_pool[fi - 1]

\* the flatrate provider ids the fetched watch data lists for the region
Listed ==
    {p \in {8, 9, 15} :
        /\ ev.watch # None
        /\ ev.watch[1].results # None
        /\ cfg.region \in DOMAIN ev.watch[1].results[1]
        /\ ev.watch[1].results[1][cfg.region] # None
        /\ ev.watch[1].results[1][cfg.region][1].flatrate # None
        /\ \E i \in DOMAIN ev.watch[1].results[1][cfg.region][1].flatrate[1] :
              ev.watch[1].results[1][cfg.region][1].flatrate[1][i].provider_id = Some(p)}

\* C6: a candidate passes the availability step iff no service is selected
\* or the flatrate providers listed for it in the region include a selected
\* one; with no service selected nothing is fetched.
C6_AvailabilityIffIntersects ==
    FilterStep =>
        /\ (ev.what # "no_service")
              = (cfg.selected_provider_ids = {}
                 \/ Listed \cap cfg.selected_provider_ids # {})
        /\ cfg.selected_provider_ids = {} => ~ev.fetched
        /\ ev.what = "retained" => filtered[Len(filtered)] = Checked

\* with services selected, one candidate was dropped and a later one kept
C6_Witness ==
    /\ FilterStep
    /\ cfg.selected_provider_ids # {}
    /\ ev.what = "retained"
    /\ Listed \cap cfg.selected_provider_ids = {9}
    /\ Len(filtered) < fi - 1

\* candidates whose ratings-provider value was "N/A"
NaCandidates ==
    {build_rec(m, b, TRUE, TRUE, Resp("ok", 200, [imdb_id |-> Some("tt0113277")]),
               Resp("ok", 200, [Response |-> "True", imdbRating |-> Some(NA)])).val[1] :
        m \in {x \in Movies : Usable(x.id, IF x.title = None THEN "" ELSE x.title[1])},
        b \in {0, LIKE_BONUS}}
NaNeverRejected ==
    \A r \in NaCandidates :
        /\ r.imdb_rating = None
        /\ \A t \in {0, 650, 1000} : ~RatingRejects(TRUE, r, t)

\* C7: a candidate is rejected on its rating only with the ratings key
\* configured, a secondary rating present and that rating below the minimum;
\* a candidate without a secondary rating ("N/A" included) never is.
C7_RatingRejectsOnlyKnownLow ==
    /\ NaNeverRejected
    /\ FilterStep =>
          /\ ev.what = "low_rating" =>
                /\ cfg.omdb_key
                /\ Checked.imdb_rating # None
                /\ Checked.imdb_rating[1] < cfg.imdb_min
          /\ (cfg.omdb_key /\ Checked.imdb_rating # None
                /\ Checked.imdb_rating[1] >= cfg.imdb_min) => ev.what # "low_rating"

\* with the ratings key configured, a candidate without a secondary rating
\* was retained after one was dropped for its rating
C7_Witness ==
    /\ FilterStep
    /\ cfg.omdb_key
    /\ cfg.selected_provider_ids = {}
    /\ Checked.imdb_rating = None
    /\ ev.what = "retained"
    /\ Len(filtered) < fi - 1

\* C9 as stated: with the metadata key missing every client operation fails
\* with the configuration error before any request, and a run that hits the
\* error shows a warning instead of ending with an uncaught exception.
C9_MissingKeyCaughtAsWarning ==
    ~cfg.tmdb_key =>
        /\ call.fn # "" => (call.exc = "RuntimeError" /\ ~call.sent)
        /\ ~sent
        /\ err.exc = "RuntimeError" => (pc # "crashed" /\ ui = "warning")

\* C9, amended: with the metadata key missing every client operation fails
\* with the configuration error before any request is sent, and a run ends
\* at its first client call with that error uncaught: no candidate is built,
\* nothing is ranked, no warning or success is shown.
C9_MissingKeyEndsRun ==
    ~cfg.tmdb_key =>
        /\ call.fn # "" => (call.exc = "RuntimeError" /\ ~call.sent)
        /\ ~sent
        /\ pc \in {"start", "search", "recs", "discover", "crashed", "done"}
        /\ pc = "crashed" => (err.exc = "RuntimeError" /\ ui = "exception")
        /\ pc = "done" => ui = "info"
        /\ pc = "discover" => likes_left = 0 /\ liked_tmdb_ids = <<>>
        /\ rec_pool = <<>> /\ top = <<>>

\* without the key and without liked titles the run ended at the discovery call
C9_Witness ==
    /\ ~cfg.tmdb_key
    /\ pc = "crashed"
    /\ err = [exc |-> "RuntimeError", at |-> "discover"]
    /\ ~sent

Ranked == pc \in {"render", "done"} /\ err.exc = ""
SrcOf(r) == src[CHOOSE i \in 1..Len(rec_pool) : rec_pool[i].tmdb_id = r.tmdb_id]

\* C10 as stated: in the ranked output every candidate from a liked title's
\* list is ahead of every candidate from discovery.
C10_LikedAlwaysAhead ==
    Ranked =>
        \A i, j \in 1..Len(top) :
            (SrcOf(top[i]) = LIKE_BONUS /\ SrcOf(top[j]) = 0) => i < j

\* C10, amended: a candidate from a liked title's list is ahead of a
\* candidate from discovery whenever its primary rating + 1.25 + quality
\* bonus is strictly greater than the other's primary rating + quality bonus.
C10_LikedAheadWhenScoreGreater ==
    Ranked =>
        \A i, j \in 1..Len(top) :
            (/\ SrcOf(top[i]) = LIKE_BONUS /\ SrcOf(top[j]) = 0
             /\ Base(top[i]) + LIKE_BONUS + Quality(top[i])
                  > Base(top[j]) + Quality(top[j]))
            => i < j

\* a liked candidate ahead of a discovery candidate with a higher primary
\* rating plus quality bonus
C10_Witness ==
    /\ Ranked
    /\ \E i, j \in 1..Len(top) :
          /\ i < j
          /\ SrcOf(top[i]) = LIKE_BONUS /\ SrcOf(top[j]) = 0
          /\ Base(top[i]) + Quality(top[i]) < Base(top[j]) + Quality(top[j])

(* ---- SpecRank ---- *)

RankDone == pc \in {"render", "done"}
PoolPos(r) == CHOOSE i \in 1..Len(rec_pool) : rec_pool[i] = r

\* C8: the output has min(N, retained) entries, is sorted non-increasing by
\* score, holds only retained candidates, leaves out no candidate with a
\* score above one it holds, and keeps equal scores in pool order.
C8_RankerOutput ==
    RankDone =>
        /\ Len(top) = Min(cfg.n_results, Len(given))
        /\ Len(top) <= cfg.n_results
        /\ \A i, j \in 1..Len(top) : i < j => top[i].score >= top[j].score
        /\ \A i \in 1..Len(top) : top[i] \in Range(given)
        /\ \A i, j \in 1..Len(top) : i # j => top[i] # top[j]
        /\ \A g \in Range(given) \ Range(top) :
              \A i \in 1..Len(top) : g.score <= top[i].score
        /\ \A i, j \in 1..Len(top) :
              (i < j /\ top[i].score = top[j].score)
                 => PoolPos(top[i]) < PoolPos(top[j])

\* more retained than requested, not in score order, with a tie in the output
C8_Witness ==
    /\ RankDone
    /\ Len(given) > cfg.n_results
    /\ Len(top) >= 2
    /\ top[1].score = top[2].score
    /\ \E i \in 1..(Len(given) - 1) : given[i].score < given[i + 1].score

====
